---- MODULE Spec2Model ----
(***************************************************************************)
(* A model of the deep-copy generator: Generator.Generate and the type     *)
(* walk (walkType), the method reuse detector (hasDeepCopy), the import    *)
(* table (getElemType) and the receiver name scan (getReceiverNames).      *)
(*                                                                         *)
(* Strings the code slices or searches (sinks, skip paths) are sequences   *)
(* of atoms: an atom is one of the characters ".", "[", "]", "_" or a      *)
(* maximal run of letters and digits, so two sequences are equal exactly   *)
(* when the strings are.                                                   *)
(***************************************************************************)
EXTENDS Integers, Sequences, FiniteSets, TLC

(* ------------------------------ bounds -------------------------------- *)

\* The largest maxDepth a run is configured with.
MaxDepthBound == 3

\* Frames the runtime's stack holds before the walk dies of stack overflow.
MaxStack == 24

\* Generate calls in one behaviour (the second call permutes the request).
MaxRuns == 2

\* Methods a probed type declares (hasDeepCopy in isolation).
MaxMethods == 2

\* getElemType calls in one run (the import table in isolation).
MaxCalls == 5

\* Files of a unit and declarations of a file (the receiver scan in isolation).
MaxFiles == 2

MaxDecls == 2

(* --------------------------- string helpers --------------------------- *)

\* strings.Index(s, "."): the 1-based position of the first "." atom, 0 if none.
IndexDot(s) ==
  IF \E i \in 1..Len(s) : s[i] = "."
  THEN CHOOSE i \in 1..Len(s) : s[i] = "." /\ \A j \in 1..(i - 1) : s[j] # "."
  ELSE 0

\* sel[strings.Index(sel, ".")+1:]: without a "." the whole string is kept.
AfterFirstDot(s) == SubSeq(s, IndexDot(s) + 1, Len(s))

\* len(strings.Split(s, ".")).
SplitLen(s) == 1 + Cardinality({i \in 1..Len(s) : s[i] = "."})

RECURSIVE selToIdent(_)
selToIdent(sel) ==
  IF sel = <<>> THEN <<>>
  ELSE LET c == Head(sel)
           rest == selToIdent(Tail(sel))
       IN IF c = "]" THEN rest
          ELSE IF c \in {"[", "."} THEN <<"_">> \o rest
          ELSE <<c>> \o rest

\* strconv.Itoa appended to a loop variable's name when depth > 1.
VarName(base, depth) == IF depth > 1 THEN base \o ToString(depth) ELSE base

\* skips.Contains(sel); a nil Skip Set contains nothing.
Contains(s, sel) == sel \in s

(* ------------------------- the type universe -------------------------- *)

\* The context unit's name (p.Name).
ContextName == "main"

\* The units of the universe: a name and an import path (atoms of the path).
PkgTable ==
  ("main" :> [name |-> "main", path |-> <<"main">>]) @@
  ("ext" :> [name |-> "ext", path |-> <<"lib", "/", "ext">>]) @@
  ("time" :> [name |-> "time", path |-> <<"time">>]) @@
  ("xtime" :> [name |-> "time", path |-> <<"x", "/", "time">>]) @@
  ("ytime" :> [name |-> "time", path |-> <<"x", "-", "time">>])

PkgIds == DOMAIN PkgTable

Basic == [kind |-> "Basic", elem |-> "", key |-> "", pkg |-> "", fields |-> <<>>]

Slice(e) == [kind |-> "Slice", elem |-> e, key |-> "", pkg |-> "", fields |-> <<>>]

Pointer(e) == [kind |-> "Pointer", elem |-> e, key |-> "", pkg |-> "", fields |-> <<>>]

Chan(e) == [kind |-> "Chan", elem |-> e, key |-> "", pkg |-> "", fields |-> <<>>]

Map(k, e) == [kind |-> "Map", elem |-> e, key |-> k, pkg |-> "", fields |-> <<>>]

\* A named type: its unit and its underlying type (kept in elem).
Named(p, u) == [kind |-> "Named", elem |-> u, key |-> "", pkg |-> p, fields |-> <<>>]

\* A struct type literal: the unit that declares it and its fields in order.
Struct(p, fs) == [kind |-> "Struct", elem |-> "", key |-> "", pkg |-> p, fields |-> fs]

Fld(n, t, e) == [name |-> n, typ |-> t, exported |-> e]

(* package main                                                            *)
(*   type T struct { M map[*int]*int; S []*int; P *int }                   *)
(*   type A struct { bs []B; pb *B; mb map[string]B; b B }                 *)
(*   type B struct { next *A; n int }                                      *)
(*   type N struct { next *N }                                             *)
(*   type R struct { p *int };  func (r R) DeepCopy() R                    *)
(*   type Q struct { p *int };  func (q *Q) DeepCopy() *Q                  *)
(*   type G struct { next *G }; func (g *G) DeepCopy() *G                  *)
(*   type U struct { r R; pr *R; q Q; pq *Q; n *N }                        *)
(*   type H struct { g *G; c chan int }                                    *)
(*   type X struct { f ext.F; pf *ext.F; a []xtime.Stamp; b []time.Time }  *)
(*   type L ext.F                                                          *)
(*   type SM []map[*int]*int                                               *)
(* package ext                                                             *)
(*   type F struct { Pub *int; priv *int; Inner struct { hid *int } }      *)
TypeTable ==
  ("int" :> Basic) @@ ("string" :> Basic) @@
  ("*int" :> Pointer("int")) @@ ("[]*int" :> Slice("*int")) @@
  ("map[*int]*int" :> Map("*int", "*int")) @@ ("chan int" :> Chan("int")) @@
  ("T" :> Named("main", "struct T")) @@
  ("struct T" :> Struct("main", <<Fld("M", "map[*int]*int", TRUE),
                                  Fld("S", "[]*int", TRUE),
                                  Fld("P", "*int", TRUE)>>)) @@
  ("A" :> Named("main", "struct A")) @@
  ("struct A" :> Struct("main", <<Fld("bs", "[]B", FALSE), Fld("pb", "*B", FALSE),
                                  Fld("mb", "map[string]B", FALSE),
                                  Fld("b", "B", FALSE)>>)) @@
  ("[]B" :> Slice("B")) @@ ("*B" :> Pointer("B")) @@
  ("map[string]B" :> Map("string", "B")) @@
  ("B" :> Named("main", "struct B")) @@
  ("struct B" :> Struct("main", <<Fld("next", "*A", FALSE), Fld("n", "int", FALSE)>>)) @@
  ("*A" :> Pointer("A")) @@
  ("N" :> Named("main", "struct N")) @@
  ("struct N" :> Struct("main", <<Fld("next", "*N", FALSE)>>)) @@
  ("*N" :> Pointer("N")) @@
  ("R" :> Named("main", "struct R")) @@
  ("struct R" :> Struct("main", <<Fld("p", "*int", FALSE)>>)) @@
  ("*R" :> Pointer("R")) @@
  ("Q" :> Named("main", "struct Q")) @@
  ("struct Q" :> Struct("main", <<Fld("p", "*int", FALSE)>>)) @@
  ("*Q" :> Pointer("Q")) @@
  ("G" :> Named("main", "struct G")) @@
  ("struct G" :> Struct("main", <<Fld("next", "*G", FALSE)>>)) @@
  ("*G" :> Pointer("G")) @@
  ("U" :> Named("main", "struct U")) @@
  ("struct U" :> Struct("main", <<Fld("r", "R", FALSE), Fld("pr", "*R", FALSE),
                                  Fld("q", "Q", FALSE), Fld("pq", "*Q", FALSE),
                                  Fld("n", "*N", FALSE)>>)) @@
  ("H" :> Named("main", "struct H")) @@
  ("struct H" :> Struct("main", <<Fld("g", "*G", FALSE), Fld("c", "chan int", FALSE)>>)) @@
  ("X" :> Named("main", "struct X")) @@
  ("struct X" :> Struct("main", <<Fld("f", "ext.F", FALSE), Fld("pf", "*ext.F", FALSE),
                                  Fld("a", "[]xtime.Stamp", FALSE),
                                  Fld("b", "[]time.Time", FALSE)>>)) @@
  ("ext.F" :> Named("ext", "struct ext.F")) @@
  ("struct ext.F" :> Struct("ext", <<Fld("Pub", "*int", TRUE), Fld("priv", "*int", FALSE),
                                     Fld("Inner", "struct ext.Inner", TRUE)>>)) @@
  ("struct ext.Inner" :> Struct("ext", <<Fld("hid", "*int", FALSE)>>)) @@
  ("*ext.F" :> Pointer("ext.F")) @@
  ("L" :> Named("main", "struct ext.F")) @@
  ("SM" :> Named("main", "[]map[*int]*int")) @@
  ("[]map[*int]*int" :> Slice("map[*int]*int")) @@
  ("time.Time" :> Named("time", "struct{}")) @@
  ("xtime.Stamp" :> Named("xtime", "struct{}")) @@
  ("ytime.Tick" :> Named("ytime", "struct{}")) @@
  ("struct{}" :> Struct("", <<>>)) @@
  ("[]time.Time" :> Slice("time.Time")) @@
  ("[]xtime.Stamp" :> Slice("xtime.Stamp")) @@
  ("[]ytime.Tick" :> Slice("ytime.Tick")) @@
  ("map[time.Time]ext.F" :> Map("time.Time", "ext.F")) @@
  ("V" :> Named("main", "struct V")) @@
  ("struct V" :> Struct("main", <<>>)) @@
  ("*V" :> Pointer("V")) @@ ("**V" :> Pointer("*V")) @@ ("[]V" :> Slice("V")) @@
  ("map[string]V" :> Map("string", "V")) @@ ("chan V" :> Chan("V"))

TypeIds == DOMAIN TypeTable

Kind(t) == TypeTable[t].kind

\* m.Underlying(): a named type's underlying type, any other type itself.
Underlying(t) == IF Kind(t) = "Named" THEN TypeTable[t].elem ELSE t

\* The name of a named type (Obj().Name()): the id without its unit.
ObjName(t) ==
  CASE t = "ext.F" -> "F"
    [] t = "time.Time" -> "Time"
    [] t = "xtime.Stamp" -> "Stamp"
    [] t = "ytime.Tick" -> "Tick"
    [] OTHER -> t

\* A method declaration: name, parameter and result counts, the first result's
\* type ("" without results) and the receiver's type.
Method(n, np, nr, ret, recv) ==
  [name |-> n, nparams |-> np, nresults |-> nr, ret |-> ret, recv |-> recv]

\* The methods the universe's named types declare in source.
DeclaredMethods ==
  [t \in {u \in TypeIds : Kind(u) = "Named"} |->
     CASE t = "R" -> <<Method("DeepCopy", 0, 1, "R", "R")>>
       [] t = "Q" -> <<Method("String", 0, 1, "string", "Q"),
                       Method("DeepCopy", 0, 1, "*Q", "*Q")>>
       [] t = "G" -> <<Method("DeepCopy", 0, 1, "*G", "*G")>>
       [] OTHER -> <<>>]

\* The configured method name.
methodName == "DeepCopy"


(* ------------------------------- state -------------------------------- *)

VARIABLES
  isPtrRecv,      \* Generator.isPtrRecv
  maxDepth,       \* Generator.maxDepth
  skipLists,      \* Generator.skipLists
  request,        \* Generate's types []string
  files,          \* pkg.Syntax
  methods,        \* the method set of each named type
  pc,             \* where Generate stands
  objs,           \* Generate's objs
  idx,            \* Generate's loop index i (1-based)
  err,            \* the error Generate returns ("" for nil)
  out,            \* what was written to the writer w, one entry per Write
  fns,            \* Generator.fns
  receiverNames,  \* Generator.receiverNames
  imports,        \* Generator.imports
  run,            \* which Generate call of the behaviour this is
  calls,          \* the reuse calls each finished function of this run holds
  prevCalls,      \* the same, of the previous run
  stack,          \* walkType's call stack
  status,         \* "run", or how the process died: "panic", "overflow"
  warnings,       \* the depth cutoff warnings logged
  entered,        \* history: every walkType entry and what it decided
  mapDec,         \* history: every map frame's key and value decision
  sliceDec,       \* history: every slice frame's element decision
  fieldVisits,    \* history: every struct field passed to a recursive call
  fileIdx,        \* the receiver scan: the file ast.Walk is in
  declIdx,        \* the receiver scan: the declaration ast.Walk is at
  recvVars,       \* recvVarVisitor.vars
  found,          \* hasDeepCopy's result for the probed type
  issued,         \* history: every (alias, path) getElemType returned
  ncalls          \* getElemType calls made

cfgVars == <<isPtrRecv, maxDepth, skipLists, request, files, methods>>

genVars == <<pc, objs, idx, err, out, fns, receiverNames, run, calls, prevCalls>>

walkVars == <<stack, status, imports, warnings, entered, mapDec, sliceDec, fieldVisits>>

scanVars == <<fileIdx, declIdx, recvVars>>

isoVars == <<found, issued, ncalls>>

vars == <<cfgVars, genVars, walkVars, scanVars, isoVars>>

(* ----------------------- the method reuse detector -------------------- *)

\* types.Identical on the universe's canonical type ids.
Identical(a, b) == a = b

\* A type has Method(i) and NumMethods(): the universe's named types.
IsMethoder(t) == t \in TypeIds /\ Kind(t) = "Named"

\* The interface the code tests is { Elem() types.Type }: pointers satisfy it,
\* and so do slices, channels and maps.
HasElem(t) == Kind(t) \in {"Pointer", "Slice", "Chan", "Map"}

reducePointer(typ) ==
  IF HasElem(typ) THEN <<TypeTable[typ].elem, TRUE>> ELSE <<typ, FALSE>>

\* The loop over v's methods, from method i on: <<hasMethod, isPointer>>.
RECURSIVE ScanMethods(_, _)
ScanMethods(ms, i) ==
  IF i > Len(ms) THEN <<FALSE, FALSE>>
  ELSE LET m == ms[i] IN
    IF m.name # methodName THEN ScanMethods(ms, i + 1)
    ELSE IF m.nparams # 0 \/ m.nresults # 1 THEN ScanMethods(ms, i + 1)
    ELSE LET r == reducePointer(m.ret)
             s == reducePointer(m.recv)
         IN IF ~Identical(r[1], s[1]) THEN <<FALSE, FALSE>> ELSE <<TRUE, r[2]>>

\* A detector that does not consult the Generating Set.
hasDeepCopyMethodsOnly(v, generating) == ScanMethods(methods[v], 1)

hasDeepCopy(v, generating) ==
  IF \E i \in 1..Len(generating) : Identical(v, generating[i])
  THEN <<TRUE, isPtrRecv>>
  ELSE ScanMethods(methods[v], 1)

(* --------------------------- the import table ------------------------- *)

\* importSanitizerRE (\W) replaces every character that is not a word character.
RECURSIVE Sanitize(_)
Sanitize(path) ==
  IF path = <<>> THEN ""
  ELSE (IF Head(path) \in {"/", "-", "."} THEN "_" ELSE Head(path)) \o Sanitize(Tail(path))

\* g.imports[name] = path.
Bind(imp, name, path) ==
  [a \in DOMAIN imp \cup {name} |-> IF a = name THEN path ELSE imp[a]]

\* The qualifier getElemType hands to types.TypeString, for one unit.
Qualifier(imp, p) ==
  LET name == PkgTable[p].name
      path == PkgTable[p].path
  IN IF name # ContextName
     THEN LET alias == IF name \in DOMAIN imp /\ imp[name] # path
                       THEN Sanitize(path) ELSE name
          IN [alias |-> alias, path |-> path, imports |-> Bind(imp, alias, path)]
     ELSE [alias |-> "", path |-> path, imports |-> imp]

\* The units types.TypeString asks the qualifier about, in the order it writes
\* them: a named type's own unit (never its underlying type's).
RECURSIVE TypePkgs(_)
RECURSIVE FieldPkgs(_)
TypePkgs(t) ==
  CASE Kind(t) = "Named" -> IF TypeTable[t].pkg = "" THEN <<>> ELSE <<TypeTable[t].pkg>>
    [] Kind(t) \in {"Slice", "Pointer", "Chan"} -> TypePkgs(TypeTable[t].elem)
    [] Kind(t) = "Map" -> TypePkgs(TypeTable[t].key) \o TypePkgs(TypeTable[t].elem)
    [] Kind(t) = "Struct" -> FieldPkgs(TypeTable[t].fields)
    [] OTHER -> <<>>

FieldPkgs(fs) == IF fs = <<>> THEN <<>> ELSE TypePkgs(Head(fs).typ) \o FieldPkgs(Tail(fs))

\* getElemType(t, x) on import table imp: the aliases written into the type's
\* text (with the path each stands for) and the table afterwards.
RECURSIVE QualifyAll(_, _, _)
QualifyAll(imp, ps, acc) ==
  IF ps = <<>> THEN [names |-> acc, imports |-> imp]
  ELSE LET q == Qualifier(imp, Head(ps))
       IN QualifyAll(q.imports, Tail(ps), Append(acc, [alias |-> q.alias, path |-> q.path]))

getElemType(imp, t) == QualifyAll(imp, TypePkgs(t), <<>>)

\* The aliases alone: what stands in the emitted type text.
KindText(imp, t) == [i \in 1..Len(getElemType(imp, t).names) |-> getElemType(imp, t).names[i].alias]


(* ------------------------------ the walk ------------------------------ *)

\* One statement of emitted code: what it is, the location it writes, the
\* location it reads, and its argument (a type text, or a call's result shape).
Em(op, sink, src, arg) == [op |-> op, sink |-> sink, src |-> src, arg |-> arg]

\* A walkType activation record.
Frame(t, source, sink, depth) ==
  [typ |-> t, source |-> source, sink |-> sink, depth |-> depth, pc |-> "enter",
   i |-> 1, buf |-> <<>>, skipValue |-> FALSE, key |-> "", val |-> "",
   ksink |-> <<>>, kkind |-> <<>>, vkind |-> <<>>]

Top == stack[Len(stack)]

SetTop(f) == [stack EXCEPT ![Len(stack)] = f]

\* The frame returns: what it wrote stays in its buffer for the caller.
Return(f, emits) == SetTop([f EXCEPT !.pc = "ret", !.buf = f.buf \o emits])

\* The Skip Set of the target being generated: skipLists.Get(i).
Get(l, i) == IF i <= Len(l) THEN l[i] ELSE {}

skips == Get(skipLists, idx)

\* The Generating Set generateFunc hands to the walk: only the targets
\* generated so far.
GeneratingSoFar(os, i) == SubSeq(os, 1, i)

\* The Generating Set generateFunc hands to the walk: all of objs.
Generating(os, i) == os

generating == Generating(objs, idx)

\* Line 202 without the increment.
NextDepthStuck(depth) == depth

\* depth++ (line 202): the depth of every call the frame makes.
NextDepth(depth) == depth + 1

\* v.Obj().Pkg() != nil && v.Obj().Pkg().Name() != x
needExported(m) ==
  /\ Kind(m) = "Named"
  /\ TypeTable[m].pkg # ""
  /\ PkgTable[TypeTable[m].pkg].name # ContextName

\* The depth cutoff of lines 181-188 applies to a frame.
CutOff(f) == maxDepth > 0 /\ f.depth >= maxDepth

\* The part of the sink the warning names: p[1:len(p)-1] joined by ".".
RECURSIVE LastDot(_)
LastDot(s) == IF s = <<>> THEN 0 ELSE IF s[Len(s)] = "." THEN Len(s) ELSE LastDot(SubSeq(s, 1, Len(s) - 1))

StoppedAt(sink) ==
  LET rest == AfterFirstDot(sink)
  IN [root |-> objs[1], path |-> SubSeq(rest, 1, LastDot(rest) - 1)]

\* What reuseDeepCopy writes for a type with the method.
ReuseEmit(source, sink, pointer, isPointer) ==
  LET shape == IF isPointer THEN <<"ptr">> ELSE <<"val">>
  IN IF pointer = isPointer THEN <<Em("call", sink, source, shape)>>
     ELSE IF pointer THEN <<Em("call_addr", sink, source, shape)>>
     ELSE <<Em("call_deref", sink, source, shape)>>

\* The reuse check of line 198 succeeds for the frame.
Reusable(f) ==
  /\ IsMethoder(f.typ)
  /\ f.depth # 0
  /\ hasDeepCopy(f.typ, generating)[1]

\* A walkType entry and what it came to.
Visit(f, outcome, shape) ==
  [typ |-> f.typ, sink |-> f.sink, depth |-> f.depth, outcome |-> outcome, shape |-> shape,
   frame |-> TRUE]

ShapeOf(isPointer) == IF isPointer THEN "ptr" ELSE "val"

\* A call of walkType from the top frame: the stack grows by one frame, or the
\* runtime's stack is exhausted.
Call(caller, callee) ==
  IF Len(stack) < MaxStack
  THEN stack' = Append(SetTop(caller), callee) /\ status' = status
  ELSE stack' = stack /\ status' = "overflow"

Walking == pc = "walk" /\ status = "run" /\ stack # <<>>

\* Lines 181-188: the frame is at or beyond the maximum depth.
WalkCutoff ==
  /\ Walking /\ Top.pc = "enter"
  /\ CutOff(Top)
  /\ IF SplitLen(Top.sink) < 2
     THEN \* p[1:len(p)-1] with len(p) = 1: slice bounds out of range
          /\ status' = "panic"
          /\ entered' = entered \cup {Visit(Top, "panic", "-")}
          /\ UNCHANGED <<stack, warnings>>
     ELSE /\ warnings' = Append(warnings, StoppedAt(Top.sink))
          /\ entered' = entered \cup {Visit(Top, "cutoff", "-")}
          /\ stack' = Return(Top, <<>>)
          /\ UNCHANGED status
  /\ UNCHANGED <<imports, mapDec, sliceDec, fieldVisits>>
  /\ UNCHANGED <<cfgVars, genVars, scanVars, isoVars>>

\* Line 198: a type with the method is copied by a call to it.
WalkReuse ==
  /\ Walking /\ Top.pc = "enter"
  /\ ~CutOff(Top)
  /\ Reusable(Top)
  /\ LET isPointer == hasDeepCopy(Top.typ, generating)[2]
     IN /\ stack' = Return(Top, ReuseEmit(Top.source, Top.sink, FALSE, isPointer))
        /\ entered' = entered \cup {Visit(Top, "reuse", ShapeOf(isPointer))}
  /\ UNCHANGED <<status, imports, warnings, mapDec, sliceDec, fieldVisits>>
  /\ UNCHANGED <<cfgVars, genVars, scanVars, isoVars>>

\* The frame passes the cutoff and the reuse check and dispatches on this kind.
Descends(kinds) ==
  /\ Walking /\ Top.pc = "enter"
  /\ ~CutOff(Top)
  /\ ~Reusable(Top)
  /\ Kind(Underlying(Top.typ)) \in kinds

\* case *types.Struct: the loop over the fields starts.
WalkStruct ==
  /\ Descends({"Struct"})
  /\ stack' = SetTop([Top EXCEPT !.pc = "struct", !.i = 1])
  /\ entered' = entered \cup {Visit(Top, "descend", "-")}
  /\ UNCHANGED <<status, imports, warnings, mapDec, sliceDec, fieldVisits>>
  /\ UNCHANGED <<cfgVars, genVars, scanVars, isoVars>>

\* One iteration of the loop over the fields (lines 206-218), or its end.
WalkStructField ==
  /\ Walking /\ Top.pc = "struct"
  /\ LET fs == TypeTable[Underlying(Top.typ)].fields
     IN IF Top.i > Len(fs)
        THEN /\ stack' = Return(Top, <<>>)
             /\ UNCHANGED <<status, fieldVisits>>
        ELSE LET field == fs[Top.i]
                 fname == field.name
                 sel == AfterFirstDot(Top.sink \o <<".", fname>>)
                 next == [Top EXCEPT !.i = Top.i + 1]
             IN IF (needExported(Top.typ) /\ ~field.exported) \/ sel \in skips
                THEN /\ stack' = SetTop(next)
                     /\ UNCHANGED <<status, fieldVisits>>
                ELSE /\ Call(next, Frame(field.typ, Top.source \o <<".", fname>>,
                                         Top.sink \o <<".", fname>>, NextDepth(Top.depth)))
                     /\ fieldVisits' = fieldVisits \cup
                          {[owner |-> Underlying(Top.typ), name |-> fname,
                            exported |-> field.exported,
                            unit |-> TypeTable[Underlying(Top.typ)].pkg]}
  /\ UNCHANGED <<imports, warnings, entered, mapDec, sliceDec>>
  /\ UNCHANGED <<cfgVars, genVars, scanVars, isoVars>>

\* The path the slice case looks up in the Skip Set (lines 227-232).
SliceSel(sink, initial) ==
  LET sel == AfterFirstDot(<<"[", "i", "]">>)
  IN IF ~initial THEN sink \o sel ELSE sel

\* case *types.Slice, to the call for the element (lines 220-251).
WalkSlice ==
  /\ Descends({"Slice"})
  /\ LET elem == TypeTable[Underlying(Top.typ)].elem
         depth == NextDepth(Top.depth)
         idxv == VarName("i", depth)
         skipSlice == Contains(skips, SliceSel(Top.sink, Top.depth = 0))
         head == <<Em("if", Top.sink, Top.source, <<>>),
                   Em("make_slice", Top.sink, Top.source, KindText(imports, elem)),
                   Em("copy", Top.sink, Top.source, <<>>)>>
         baseSel == <<"[", idxv, "]">>
     IN /\ imports' = getElemType(imports, elem).imports
        /\ sliceDec' = sliceDec \cup {[sink |-> Top.sink, depth |-> Top.depth, walked |-> ~skipSlice]}
        /\ IF ~skipSlice
           THEN Call([Top EXCEPT !.pc = "slice_ret", !.buf = Top.buf \o head, !.key = idxv],
                     Frame(elem, Top.source \o baseSel, Top.sink \o baseSel, depth))
           ELSE /\ stack' = Return(Top, head \o <<Em("end", <<>>, <<>>, <<>>)>>)
                /\ UNCHANGED status
  /\ entered' = entered \cup {Visit(Top, "descend", "-")}
  /\ UNCHANGED <<warnings, mapDec, fieldVisits>>
  /\ UNCHANGED <<cfgVars, genVars, scanVars, isoVars>>

\* case *types.Pointer, to the call for the pointee (lines 264-273).
WalkPointer ==
  /\ Descends({"Pointer"})
  /\ LET e == TypeTable[Underlying(Top.typ)].elem
         depth == NextDepth(Top.depth)
         open == <<Em("if", Top.sink, Top.source, <<>>)>>
         reuse == IsMethoder(e) /\ Top.depth # 0 /\ hasDeepCopy(e, generating)[1]
         isPointer == hasDeepCopy(e, generating)[2]
     IN IF reuse
        THEN /\ stack' = Return(Top, open \o ReuseEmit(Top.source, Top.sink, TRUE, isPointer)
                                      \o <<Em("end", <<>>, <<>>, <<>>)>>)
             /\ entered' = entered \cup
                  {Visit(Top, "descend", "-"),
                   [typ |-> e, sink |-> Top.sink, depth |-> depth,
                    outcome |-> "reuse", shape |-> ShapeOf(isPointer), frame |-> FALSE]}
             /\ UNCHANGED <<status, imports>>
        ELSE /\ imports' = getElemType(imports, e).imports
             /\ entered' = entered \cup {Visit(Top, "descend", "-")}
             /\ Call([Top EXCEPT !.pc = "ptr_ret",
                                 !.buf = Top.buf \o open
                                   \o <<Em("new", Top.sink, Top.source, KindText(imports, e))>>],
                     Frame(e, Top.source, Top.sink, depth))
  /\ UNCHANGED <<warnings, mapDec, sliceDec, fieldVisits>>
  /\ UNCHANGED <<cfgVars, genVars, scanVars, isoVars>>

\* case *types.Chan (lines 278-283).
WalkChan ==
  /\ Descends({"Chan"})
  /\ LET elem == TypeTable[Underlying(Top.typ)].elem
     IN /\ imports' = getElemType(imports, elem).imports
        /\ stack' = Return(Top, <<Em("if", Top.sink, Top.source, <<>>),
                                  Em("make_chan", Top.sink, Top.source, KindText(imports, elem)),
                                  Em("end", <<>>, <<>>, <<>>)>>)
  /\ entered' = entered \cup {Visit(Top, "descend", "-")}
  /\ UNCHANGED <<status, warnings, mapDec, sliceDec, fieldVisits>>
  /\ UNCHANGED <<cfgVars, genVars, scanVars, isoVars>>

\* A basic type (or any type the switch has no case for): nothing is written.
WalkBasic ==
  /\ Descends({"Basic"})
  /\ stack' = Return(Top, <<>>)
  /\ entered' = entered \cup {Visit(Top, "descend", "-")}
  /\ UNCHANGED <<status, imports, warnings, mapDec, sliceDec, fieldVisits>>
  /\ UNCHANGED <<cfgVars, genVars, scanVars, isoVars>>


\* The path the map case looks up in the Skip Set (lines 295-300).
MapSel(sink, initial) ==
  LET sel == <<"[", "k", "]">>
  IN AfterFirstDot(IF ~initial THEN sink \o sel ELSE sel)

\* skipKey and skipValue (lines 302-305).
MapSkips(s, sel) ==
  IF Contains(s, sel) THEN [key |-> TRUE, value |-> TRUE]
  ELSE [key |-> FALSE, value |-> FALSE]

End == Em("end", <<>>, <<>>, <<>>)

\* The call for a map's values (lines 330-331).
ValueFrame(f) ==
  Frame(TypeTable[Underlying(f.typ)].elem, <<f.val>>,
        selToIdent(f.sink) \o <<"_", f.val>>, NextDepth(f.depth))

\* The insertion into the new map that ends the map case (lines 340-342).
MapTail(f, ksink, vsink) == <<Em("assign", f.sink \o <<"[">> \o ksink \o <<"]">>, vsink, <<>>), End, End>>

\* case *types.Map, to the first call it makes (lines 285-318).
WalkMap ==
  /\ Descends({"Map"})
  /\ LET kt == TypeTable[Underlying(Top.typ)].key
         vt == TypeTable[Underlying(Top.typ)].elem
         imp1 == getElemType(imports, kt).imports
         kkind == KindText(imports, kt)
         vkind == KindText(imp1, vt)
         depth == NextDepth(Top.depth)
         key == VarName("k", depth)
         val == VarName("v", depth)
         sk == MapSkips(skips, MapSel(Top.sink, Top.depth = 0))
         head == <<Em("if", Top.sink, Top.source, <<>>),
                   Em("make_map", Top.sink, Top.source, kkind \o vkind),
                   Em("range", <<key, val>>, Top.source, <<>>)>>
         f == [Top EXCEPT !.buf = Top.buf \o head, !.skipValue = sk.value, !.key = key,
                          !.val = val, !.ksink = <<key>>, !.kkind = kkind, !.vkind = vkind]
     IN /\ imports' = getElemType(imp1, vt).imports
        /\ mapDec' = mapDec \cup
             {[sink |-> Top.sink, depth |-> Top.depth, keyWalked |-> ~sk.key,
               valWalked |-> ~sk.value]}
        /\ IF ~sk.key
           THEN Call([f EXCEPT !.pc = "map_key_ret"],
                     Frame(kt, <<key>>, selToIdent(Top.sink) \o <<"_", key>>, depth))
           ELSE IF ~sk.value
           THEN Call([f EXCEPT !.pc = "map_val_ret"], ValueFrame(f))
           ELSE /\ stack' = Return(f, MapTail(f, <<key>>, <<val>>))
                /\ UNCHANGED status
  /\ entered' = entered \cup {Visit(Top, "descend", "-")}
  /\ UNCHANGED <<warnings, sliceDec, fieldVisits>>
  /\ UNCHANGED <<cfgVars, genVars, scanVars, isoVars>>

\* A call returned to its caller, which waits at pc.
Returned(at) ==
  /\ Walking /\ Len(stack) >= 2
  /\ Top.pc = "ret"
  /\ stack[Len(stack) - 1].pc = at

Caller == stack[Len(stack) - 1]

\* The stack with the returned frame popped and the caller replaced by f.
Pop(f) == [SubSeq(stack, 1, Len(stack) - 1) EXCEPT ![Len(stack) - 1] = f]

\* A field's walk returned (it wrote to the struct's own writer).
WalkReturnStruct ==
  /\ Returned("struct")
  /\ stack' = Pop([Caller EXCEPT !.buf = Caller.buf \o Top.buf])
  /\ UNCHANGED <<status, imports, warnings, entered, mapDec, sliceDec, fieldVisits>>
  /\ UNCHANGED <<cfgVars, genVars, scanVars, isoVars>>

\* The element's walk returned: the loop is written only around a non-empty
\* body (lines 253-262).
WalkReturnSlice ==
  /\ Returned("slice_ret")
  /\ LET body == IF Top.buf # <<>>
                 THEN <<Em("for", <<Caller.key>>, Caller.source, <<>>)>> \o Top.buf \o <<End>>
                 ELSE <<>>
     IN stack' = Pop([Caller EXCEPT !.pc = "ret", !.buf = Caller.buf \o body \o <<End>>])
  /\ UNCHANGED <<status, imports, warnings, entered, mapDec, sliceDec, fieldVisits>>
  /\ UNCHANGED <<cfgVars, genVars, scanVars, isoVars>>

\* The pointee's walk returned (line 276).
WalkReturnPointer ==
  /\ Returned("ptr_ret")
  /\ stack' = Pop([Caller EXCEPT !.pc = "ret", !.buf = Caller.buf \o Top.buf \o <<End>>])
  /\ UNCHANGED <<status, imports, warnings, entered, mapDec, sliceDec, fieldVisits>>
  /\ UNCHANGED <<cfgVars, genVars, scanVars, isoVars>>

\* The key's walk returned (lines 320-331): its code is kept when there is
\* any, and the value's walk is called unless the value is skipped.
WalkReturnMapKey ==
  /\ Returned("map_key_ret")
  /\ LET kept == Top.buf # <<>>
         ksink == IF kept THEN Top.sink ELSE Caller.ksink
         add == IF kept THEN <<Em("var", ksink, <<>>, Caller.kkind)>> \o Top.buf ELSE <<>>
         f == [Caller EXCEPT !.buf = Caller.buf \o add, !.ksink = ksink]
     IN IF ~f.skipValue
        THEN stack' = Append(Pop([f EXCEPT !.pc = "map_val_ret"]), ValueFrame(f))
        ELSE stack' = Pop([f EXCEPT !.pc = "ret",
                                    !.buf = f.buf \o MapTail(f, ksink, <<f.val>>)])
  /\ UNCHANGED <<status, imports, warnings, entered, mapDec, sliceDec, fieldVisits>>
  /\ UNCHANGED <<cfgVars, genVars, scanVars, isoVars>>

\* The value's walk returned (lines 333-342).
WalkReturnMapValue ==
  /\ Returned("map_val_ret")
  /\ LET kept == Top.buf # <<>>
         vsink == IF kept THEN Top.sink ELSE <<Caller.val>>
         add == IF kept THEN <<Em("var", vsink, <<>>, Caller.vkind)>> \o Top.buf ELSE <<>>
     IN stack' = Pop([Caller EXCEPT !.pc = "ret",
                        !.buf = Caller.buf \o add \o MapTail(Caller, Caller.ksink, vsink)])
  /\ UNCHANGED <<status, imports, warnings, entered, mapDec, sliceDec, fieldVisits>>
  /\ UNCHANGED <<cfgVars, genVars, scanVars, isoVars>>

\* The reuse calls a function's code holds.
ReuseCalls(buf) ==
  {buf[i] : i \in {j \in 1..Len(buf) : buf[j].op \in {"call", "call_addr", "call_deref"}}}

\* The root walk returned: generateFunc's tail (lines 135-141) and Generate's
\* append (line 103).
WalkReturnRoot ==
  /\ Walking /\ Len(stack) = 1
  /\ Top.pc = "ret"
  /\ LET body == Top.buf \o <<Em("return", <<>>, <<"cp">>, IF isPtrRecv THEN <<"ptr">> ELSE <<"val">>)>>
     IN /\ fns' = Append(fns, body)
        /\ calls' = Bind(calls, objs[idx], ReuseCalls(body))
  /\ stack' = <<>>
  /\ idx' = idx + 1
  /\ pc' = "gen"
  /\ UNCHANGED <<status, imports, warnings, entered, mapDec, sliceDec, fieldVisits>>
  /\ UNCHANGED <<objs, err, out, receiverNames, run, prevCalls>>
  /\ UNCHANGED <<cfgVars, scanVars, isoVars>>


(* ---------------------------- the receiver scan ----------------------- *)

\* The comments a file of the universe may carry.
AutoGenComment == "// Code generated by deep-copy; DO NOT EDIT."

NearMissComment == "// Code generated DO NOT EDIT."

PlainComment == "// Package main holds the model types."

\* patAutoGen.MatchString: "// Code generated ", anything, " DO NOT EDIT." is
\* the whole line.
MatchesAutoGen(text) == text = AutoGenComment

\* isCodeGenerated: some comment of the file matches.
isCodeGenerated(f) == \E i \in 1..Len(f.comments) : MatchesAutoGen(f.comments[i])

\* A declaration of a file: a function declaration or not; whether it has a
\* receiver; whether the receiver's type (under a *) is an identifier, and
\* which; the receiver's variable names.
Decl(kind, recv, ident, typ, names) ==
  [kind |-> kind, recv |-> recv, ident |-> ident, typ |-> typ, names |-> names]

File(comments, decls) == [comments |-> comments, decls |-> decls]

\* rv.add: the first name found for a type is kept.
add(tbl, key, name) == IF key \in DOMAIN tbl THEN tbl ELSE Bind(tbl, key, name)

\* getReceiverNames to the first ast.Walk (lines 13-19).
GetReceiverNames ==
  /\ pc = "recv" /\ status = "run" /\ fileIdx = 0
  /\ IF files = <<>>
     THEN /\ err' = "recv"
          /\ pc' = "done"
          /\ UNCHANGED <<fileIdx, declIdx, recvVars>>
     ELSE /\ fileIdx' = 1
          /\ declIdx' = 0
          /\ recvVars' = <<>>
          /\ UNCHANGED <<err, pc>>
  /\ UNCHANGED <<objs, idx, out, fns, receiverNames, run, calls, prevCalls>>
  /\ UNCHANGED <<cfgVars, walkVars, isoVars>>

Scanning == pc = "recv" /\ status = "run" /\ fileIdx \in 1..Len(files)

\* Visit on an *ast.File (lines 35-39): a generated file is not descended into.
VisitFile ==
  /\ Scanning /\ declIdx = 0
  /\ IF isCodeGenerated(files[fileIdx]) \/ files[fileIdx].decls = <<>>
     THEN fileIdx' = fileIdx + 1 /\ declIdx' = 0
     ELSE fileIdx' = fileIdx /\ declIdx' = 1
  /\ UNCHANGED recvVars
  /\ UNCHANGED <<cfgVars, genVars, walkVars, isoVars>>

\* Visit on a declaration of a file (lines 40-65).
VisitDecl ==
  /\ Scanning /\ declIdx >= 1
  /\ LET d == files[fileIdx].decls[declIdx]
         named == d.kind = "func" /\ d.recv /\ d.ident
     IN /\ IF named /\ d.names = <<>>
           THEN \* fld.Names[0] of a receiver without a name: index out of range
                status' = "panic" /\ UNCHANGED recvVars
           ELSE /\ recvVars' = IF named THEN add(recvVars, d.typ, d.names[1]) ELSE recvVars
                /\ UNCHANGED status
        /\ IF declIdx = Len(files[fileIdx].decls)
           THEN fileIdx' = fileIdx + 1 /\ declIdx' = 0
           ELSE fileIdx' = fileIdx /\ declIdx' = declIdx + 1
  /\ UNCHANGED <<stack, imports, warnings, entered, mapDec, sliceDec, fieldVisits>>
  /\ UNCHANGED <<cfgVars, genVars, isoVars>>

\* getReceiverNames returns v.vars (line 23) to Generate (lines 91-95).
ScanReturn ==
  /\ pc = "recv" /\ status = "run" /\ fileIdx > Len(files) /\ fileIdx >= 1
  /\ receiverNames' = recvVars
  /\ pc' = "gen"
  /\ idx' = 1
  /\ UNCHANGED <<objs, err, out, fns, run, calls, prevCalls>>
  /\ UNCHANGED <<cfgVars, walkVars, scanVars, isoVars>>

(* ------------------------------ Generate ------------------------------ *)

\* locateType: the named type of the context unit with this name, "" if none.
locateType(kind) ==
  LET hits == {t \in TypeIds : /\ Kind(t) = "Named"
                               /\ TypeTable[t].pkg # ""
                               /\ PkgTable[TypeTable[t].pkg].name = ContextName
                               /\ ObjName(t) = kind}
  IN IF hits = {} THEN "" ELSE CHOOSE t \in hits : TRUE

\* Generate's first loop (lines 80-88): every requested type is located.
GenerateLocate ==
  /\ pc = "locate" /\ status = "run"
  /\ IF \E i \in 1..Len(request) : locateType(request[i]) = ""
     THEN /\ err' = "locate"
          /\ pc' = "done"
          /\ UNCHANGED objs
     ELSE /\ objs' = [i \in 1..Len(request) |-> locateType(request[i])]
          /\ pc' = "recv"
          /\ UNCHANGED err
  /\ UNCHANGED <<idx, out, fns, receiverNames, run, calls, prevCalls>>
  /\ UNCHANGED <<cfgVars, walkVars, scanVars, isoVars>>

\* The receiver variable of the generated method (lines 123-127).
SourceName(kind) ==
  IF kind \in DOMAIN receiverNames /\ receiverNames[kind] # "" THEN receiverNames[kind] ELSE "o"

\* generateFunc to its call of walkType (lines 114-133).
GenerateFunc ==
  /\ pc = "gen" /\ status = "run" /\ idx <= Len(objs)
  /\ LET kind == ObjName(objs[idx])
         source == SourceName(kind)
         root == Frame(objs[idx], <<source>>, <<"cp">>, 0)
     IN stack' = <<[root EXCEPT !.buf = <<Em("func", <<"cp">>, <<source>>, <<kind>>)>>]>>
  /\ pc' = "walk"
  /\ entered' = {} /\ mapDec' = {} /\ sliceDec' = {} /\ fieldVisits' = {}
  /\ UNCHANGED <<status, imports, warnings>>
  /\ UNCHANGED <<objs, idx, err, out, fns, receiverNames, run, calls, prevCalls>>
  /\ UNCHANGED <<cfgVars, scanVars, isoVars>>

\* The file is written whether or not the formatter accepted it.
FileWriteUnformatted(o, text, formatted) == Append(o, text)

\* generateFile's end (lines 166-172): the formatted text is written, once.
FileWrite(o, text, formatted) == IF formatted THEN Append(o, text) ELSE o

\* generateFile (lines 144-173), after the last function: the formatter
\* accepts the text or not, and the writer takes it or fails.
GenerateFile ==
  /\ pc = "gen" /\ status = "run" /\ idx > Len(objs)
  /\ \E formatted \in BOOLEAN, taken \in BOOLEAN :
       /\ out' = FileWrite(out, [imports |-> imports, fns |-> fns], formatted)
       /\ err' = IF ~formatted THEN "format" ELSE IF ~taken THEN "write" ELSE ""
  /\ pc' = "done"
  /\ UNCHANGED <<objs, idx, fns, receiverNames, run, calls, prevCalls>>
  /\ UNCHANGED <<cfgVars, walkVars, scanVars, isoVars>>

\* s reordered by the permutation p of its indices.
Permuted(s, p) == [i \in 1..Len(s) |-> s[p[i]]]

\* The caller builds a new Generator (NewGenerator, lines 40-52) and calls
\* Generate again with the same request in another order, each skip list
\* moving with its type.
Regenerate ==
  /\ pc = "done" /\ status = "run" /\ err = ""
  /\ run < MaxRuns
  /\ Len(skipLists) \in {0, Len(request)}
  /\ \E p \in Permutations(1..Len(request)) :
       /\ Permuted(request, p) # request
       /\ request' = Permuted(request, p)
       /\ skipLists' = IF skipLists = <<>> THEN <<>> ELSE Permuted(skipLists, p)
  /\ run' = run + 1
  /\ prevCalls' = calls
  /\ calls' = <<>>
  /\ pc' = "locate"
  /\ objs' = <<>> /\ idx' = 0 /\ out' = <<>> /\ fns' = <<>> /\ receiverNames' = <<>>
  /\ imports' = <<>> /\ warnings' = <<>>
  /\ entered' = {} /\ mapDec' = {} /\ sliceDec' = {} /\ fieldVisits' = {}
  /\ fileIdx' = 0 /\ declIdx' = 0 /\ recvVars' = <<>>
  /\ UNCHANGED <<isPtrRecv, maxDepth, files, methods, err, stack, status>>
  /\ UNCHANGED isoVars


(* ------------------------- the generator's runs ----------------------- *)

\* The skip paths a run may configure for T.
SkipCands ==
  {<<"M", "[", "k", "]">>, <<"M", "[", "v", "]">>, <<"S", "[", "i", "]">>,
   <<"cp", ".", "S", "[", "i", "]">>, <<"P">>}

\* The requests of the runs: the target names and their skip lists.
Requests ==
  {[types |-> <<"T">>, skips |-> <<S>>] : S \in SUBSET SkipCands} \cup
  {[types |-> ts, skips |-> <<>>] :
     ts \in {<<"A", "B">>, <<"A", "B", "H">>, <<"U">>, <<"U", "N">>, <<"H">>, <<"X">>,
             <<"L">>, <<"SM">>, <<"A", "Nope">>, <<>>}} \cup
  {[types |-> <<"T", "A">>, skips |-> <<{<<"M", "[", "k", "]">>}, {<<"bs">>}>>],
   [types |-> <<"H", "T">>, skips |-> <<{<<"c">>}>>]}

\* The syntax of the context unit: none; hand-written methods with named
\* receivers; a generated file and a method whose receiver has no name.
UnitFiles ==
  {<<>>,
   <<File(<<PlainComment>>, <<Decl("func", TRUE, TRUE, "A", <<"a">>),
                              Decl("gen", FALSE, FALSE, "", <<>>),
                              Decl("func", TRUE, TRUE, "A", <<"other">>)>>)>>,
   <<File(<<AutoGenComment>>, <<Decl("func", TRUE, TRUE, "T", <<"gen">>)>>),
     File(<<NearMissComment>>, <<Decl("func", TRUE, TRUE, "T", <<"t">>),
                                 Decl("func", TRUE, TRUE, "B", <<>>)>>)>>}

\* The state once NewGenerator has built the Generator (lines 40-52) and
\* Generate is called.
Init ==
  /\ \E r \in Requests : request = r.types /\ skipLists = r.skips
  /\ maxDepth \in 0..MaxDepthBound
  /\ isPtrRecv \in BOOLEAN
  /\ files \in UnitFiles
  /\ methods = DeclaredMethods
  /\ pc = "locate"
  /\ objs = <<>> /\ idx = 0 /\ err = "" /\ out = <<>> /\ fns = <<>>
  /\ receiverNames = <<>> /\ imports = <<>>
  /\ run = 1 /\ calls = <<>> /\ prevCalls = <<>>
  /\ stack = <<>> /\ status = "run" /\ warnings = <<>>
  /\ entered = {} /\ mapDec = {} /\ sliceDec = {} /\ fieldVisits = {}
  /\ fileIdx = 0 /\ declIdx = 0 /\ recvVars = <<>>
  /\ found = <<>> /\ issued = {} /\ ncalls = 0

Next ==
  \/ GenerateLocate
  \/ GetReceiverNames
  \/ VisitFile
  \/ VisitDecl
  \/ ScanReturn
  \/ GenerateFunc
  \/ WalkCutoff
  \/ WalkReuse
  \/ WalkStruct
  \/ WalkStructField
  \/ WalkSlice
  \/ WalkPointer
  \/ WalkChan
  \/ WalkMap
  \/ WalkBasic
  \/ WalkReturnStruct
  \/ WalkReturnSlice
  \/ WalkReturnPointer
  \/ WalkReturnMapKey
  \/ WalkReturnMapValue
  \/ WalkReturnRoot
  \/ GenerateFile
  \/ Regenerate

Spec == Init /\ [][Next]_vars

(* ---------------------- hasDeepCopy in isolation ---------------------- *)

\* The method declarations a probed type V may carry.
MethodChoices ==
  {Method(n, np, nr, ret, recv) :
     n \in {"DeepCopy", "Clone"}, np \in {0, 1}, nr \in {1, 2},
     ret \in {"V", "*V", "**V", "[]V", "int"}, recv \in {"V", "*V"}} \cup
  {Method(n, np, 0, "", recv) : n \in {"DeepCopy", "Clone"}, np \in {0, 1}, recv \in {"V", "*V"}}

\* A type's method set: no two methods share a name.
MethodSets ==
  UNION {{ms \in [1..n -> MethodChoices] :
            \A i, j \in 1..n : i # j => ms[i].name # ms[j].name} : n \in 0..MaxMethods}

DetectInit ==
  /\ \E ms \in MethodSets : methods = [DeclaredMethods EXCEPT !["V"] = ms]
  /\ objs \in {<<>>, <<"A">>, <<"A", "V">>}
  /\ isPtrRecv \in BOOLEAN
  /\ pc = "detect"
  /\ request = <<>> /\ skipLists = <<>> /\ maxDepth = 0 /\ files = <<>>
  /\ idx = 0 /\ err = "" /\ out = <<>> /\ fns = <<>>
  /\ receiverNames = <<>> /\ imports = <<>>
  /\ run = 1 /\ calls = <<>> /\ prevCalls = <<>>
  /\ stack = <<>> /\ status = "run" /\ warnings = <<>>
  /\ entered = {} /\ mapDec = {} /\ sliceDec = {} /\ fieldVisits = {}
  /\ fileIdx = 0 /\ declIdx = 0 /\ recvVars = <<>>
  /\ found = <<>> /\ issued = {} /\ ncalls = 0

\* hasDeepCopy is asked about V.
Detect ==
  /\ pc = "detect"
  /\ found' = hasDeepCopy("V", objs)
  /\ pc' = "detected"
  /\ UNCHANGED <<objs, idx, err, out, fns, receiverNames, run, calls, prevCalls>>
  /\ UNCHANGED <<issued, ncalls>>
  /\ UNCHANGED <<cfgVars, walkVars, scanVars>>

DetectNext == Detect

SpecDetect == DetectInit /\ [][DetectNext]_vars

(* ---------------------- getElemType in isolation ---------------------- *)

\* The types a run may ask getElemType to write.
QualifyTypes == {"time.Time", "xtime.Stamp", "ytime.Tick", "ext.F", "map[time.Time]ext.F", "A"}

ImportsInit ==
  /\ pc = "qualify"
  /\ methods = DeclaredMethods
  /\ isPtrRecv = FALSE
  /\ request = <<>> /\ skipLists = <<>> /\ maxDepth = 0 /\ files = <<>>
  /\ objs = <<>> /\ idx = 0 /\ err = "" /\ out = <<>> /\ fns = <<>>
  /\ receiverNames = <<>> /\ imports = <<>>
  /\ run = 1 /\ calls = <<>> /\ prevCalls = <<>>
  /\ stack = <<>> /\ status = "run" /\ warnings = <<>>
  /\ entered = {} /\ mapDec = {} /\ sliceDec = {} /\ fieldVisits = {}
  /\ fileIdx = 0 /\ declIdx = 0 /\ recvVars = <<>>
  /\ found = <<>> /\ issued = {} /\ ncalls = 0

\* One call of getElemType, for any type of the universe.
GetElemTypeCall ==
  /\ pc = "qualify"
  /\ ncalls < MaxCalls
  /\ \E t \in QualifyTypes :
       LET r == getElemType(imports, t)
       IN /\ imports' = r.imports
          /\ issued' = issued \cup {r.names[i] : i \in {j \in 1..Len(r.names) : r.names[j].alias # ""}}
  /\ ncalls' = ncalls + 1
  /\ UNCHANGED <<stack, status, warnings, entered, mapDec, sliceDec, fieldVisits>>
  /\ UNCHANGED found
  /\ UNCHANGED <<cfgVars, genVars, scanVars>>

ImportsNext == GetElemTypeCall

SpecImports == ImportsInit /\ [][ImportsNext]_vars

(* -------------------- getReceiverNames in isolation ------------------- *)

DeclChoices ==
  {Decl("gen", FALSE, FALSE, "", <<>>), Decl("func", FALSE, FALSE, "", <<>>),
   Decl("func", TRUE, TRUE, "A", <<"a">>), Decl("func", TRUE, TRUE, "A", <<"b">>),
   Decl("func", TRUE, TRUE, "B", <<"x">>), Decl("func", TRUE, TRUE, "A", <<>>),
   Decl("func", TRUE, FALSE, "", <<>>)}

CommentChoices == {<<PlainComment>>, <<PlainComment, AutoGenComment>>, <<NearMissComment>>}

FileChoices ==
  {File(c, ds) : c \in CommentChoices,
                 ds \in UNION {[1..n -> DeclChoices] : n \in 0..MaxDecls}}

RecvInit ==
  /\ files \in UNION {[1..n -> FileChoices] : n \in 0..MaxFiles}
  /\ pc = "recv"
  /\ methods = DeclaredMethods
  /\ isPtrRecv = FALSE
  /\ request = <<>> /\ skipLists = <<>> /\ maxDepth = 0
  /\ objs = <<>> /\ idx = 0 /\ err = "" /\ out = <<>> /\ fns = <<>>
  /\ receiverNames = <<>> /\ imports = <<>>
  /\ run = 1 /\ calls = <<>> /\ prevCalls = <<>>
  /\ stack = <<>> /\ status = "run" /\ warnings = <<>>
  /\ entered = {} /\ mapDec = {} /\ sliceDec = {} /\ fieldVisits = {}
  /\ fileIdx = 0 /\ declIdx = 0 /\ recvVars = <<>>
  /\ found = <<>> /\ issued = {} /\ ncalls = 0

RecvNext ==
  \/ GetReceiverNames
  \/ VisitFile
  \/ VisitDecl
  \/ ScanReturn

SpecRecv == RecvInit /\ [][RecvNext]_vars


(* ------------------------------- claims ------------------------------- *)

Range(f) == {f[i] : i \in DOMAIN f}

\* The walk of the target objs[idx] is under way.
InWalk == pc = "walk"

\* The root-relative key path and value path of the map at sink.
KeyPath(sink) == AfterFirstDot(sink \o <<"[", "k", "]">>)

ValuePath(sink) == AfterFirstDot(sink \o <<"[", "v", "]">>)

\* C1: at every map the walk reaches below the root, the key is walked exactly
\* when the key path is not in the Skip Set, and the value is walked exactly
\* when the value path is not in the Skip Set.
C1_KeyValueIndependent ==
  InWalk =>
    \A d \in mapDec :
      d.depth > 0 =>
        /\ d.keyWalked = (KeyPath(d.sink) \notin skips)
        /\ d.valWalked = (ValuePath(d.sink) \notin skips)

\* Every function this run has finished holds the reuse calls the previous
\* run's function for the same target held.
OrderIndependent ==
  run > 1 => \A t \in DOMAIN calls : t \in DOMAIN prevCalls => calls[t] = prevCalls[t]

\* C2 as stated: every walkType entry below the root whose type is in the
\* Generating Set writes a reuse call of the configured receiver shape and
\* does not descend, and the reuse calls of each target's function are the
\* same for every order of the request.
C2_ReuseAtEveryPosition ==
  /\ InWalk =>
       \A e \in entered :
         (e.depth > 0 /\ e.typ \in Range(objs)) =>
           e.outcome = "reuse" /\ e.shape = ShapeOf(isPtrRecv)
  /\ OrderIndependent

\* C2 as amended: the same, at the entries the depth cutoff has not truncated.
C2_ReuseBelowCutoff ==
  /\ InWalk =>
       \A e \in entered :
         (e.depth > 0 /\ e.typ \in Range(objs) /\ e.outcome \notin {"cutoff", "panic"}) =>
           e.outcome = "reuse" /\ e.shape = ShapeOf(isPtrRecv)
  /\ OrderIndependent

\* The second run, in the other order, has finished A's function, which
\* reached B (in the Generating Set) as a slice element, through a pointer,
\* as a map value and directly.
C2_Witness ==
  /\ run = 2 /\ pc = "done" /\ request = <<"B", "A">>
  /\ "A" \in DOMAIN calls /\ Cardinality(calls["A"]) = 4
  /\ prevCalls = calls

\* C3: with maxDepth > 0 the root frame has depth 0, every call is made with
\* a depth greater than its caller's, the stack never holds more than
\* maxDepth + 1 frames (so the walk ends), and a frame entered at depth >=
\* maxDepth writes nothing and calls nothing.
C3_DepthDiscipline ==
  (maxDepth > 0 /\ InWalk) =>
    /\ status # "overflow"
    /\ Len(stack) <= maxDepth + 1
    /\ stack # <<>> => stack[1].depth = 0
    /\ \A i \in 1..(Len(stack) - 1) : stack[i + 1].depth > stack[i].depth
    /\ \A i \in 1..Len(stack) :
         stack[i].depth >= maxDepth => i = Len(stack) /\ stack[i].buf = <<>>
    /\ \A e \in entered :
         (e.frame /\ e.depth >= maxDepth) => e.outcome \in {"cutoff", "panic"}

\* The walk of U, whose field n is the self-referential N (not in the
\* Generating Set, no method), was cut off inside N.
C3_Witness ==
  /\ maxDepth > 0 /\ request = <<"U">> /\ InWalk
  /\ \E e \in entered : e.typ \in {"N", "*N"} /\ e.outcome = "cutoff" /\ e.depth = maxDepth

\* A pointer type's pointee, any other type itself.
StripPointer(t) == IF Kind(t) = "Pointer" THEN TypeTable[t].elem ELSE t

\* The method has the configured name, no parameters and one result that is,
\* up to one pointer, the receiver's type up to one pointer.
Matches(m) ==
  /\ m.name = methodName
  /\ m.nparams = 0
  /\ m.nresults = 1
  /\ StripPointer(m.ret) = StripPointer(m.recv)

\* C4: for a type outside the Generating Set, found holds exactly when a
\* method of the type matches, and then resultIsPointer says whether that
\* method's result is a pointer.
C4_DetectExact ==
  (pc = "detected" /\ "V" \notin Range(objs)) =>
    /\ found[1] = (\E m \in Range(methods["V"]) : Matches(m))
    /\ found[1] => \E m \in Range(methods["V"]) :
                      Matches(m) /\ found[2] = (Kind(m.ret) = "Pointer")

\* C5: the writer is written at most once, only when Generate is over and
\* with every requested type's function, and never when Generate returns one
\* of the errors: type not found, no syntax, formatter rejection.
C5_NoPartialOutput ==
  /\ Len(out) <= 1
  /\ err \in {"locate", "recv", "format"} => out = <<>>
  /\ out # <<>> => pc = "done" /\ Len(out[1].fns) = Len(request)

\* Every function was synthesized and the formatter rejected the text.
C5_Witness == pc = "done" /\ err = "format" /\ Len(fns) = 2 /\ out = <<>>

\* The types of the graph under t.
Edges(t) ==
  CASE Kind(t) = "Named" -> {TypeTable[t].elem}
    [] Kind(t) \in {"Slice", "Pointer", "Chan"} -> {TypeTable[t].elem}
    [] Kind(t) = "Map" -> {TypeTable[t].key, TypeTable[t].elem}
    [] Kind(t) = "Struct" -> {f.typ : f \in Range(TypeTable[t].fields)}
    [] OTHER -> {}

RECURSIVE Closure(_)
Closure(S) ==
  LET more == S \cup UNION {Edges(t) : t \in S}
  IN IF more = S THEN S ELSE Closure(more)

GraphOf(t) == Closure({t})

\* A type the walk does not descend into below the root: a member of the
\* Generating Set, or a type with a matching method.
Trusted(t) ==
  /\ Kind(t) = "Named"
  /\ \/ t \in Range(objs)
     \/ \E m \in Range(methods[t]) : Matches(m)

\* The types reachable from t along edges that do not leave a trusted type.
OpenEdges(t) == IF Trusted(t) THEN {} ELSE Edges(t)

RECURSIVE OpenClosure(_)
OpenClosure(S) ==
  LET more == S \cup UNION {OpenEdges(t) : t \in S}
  IN IF more = S THEN S ELSE OpenClosure(more)

OpenBelow(t) == OpenClosure(OpenEdges(t))

\* Every cycle of the graph under the root passes through a trusted type.
CyclesGuarded(root) ==
  \A t \in OpenClosure(Edges(root)) : t \notin OpenBelow(t)

\* C6 as stated: with maxDepth = 0 the stack of the walk never holds more
\* frames than the target's type graph has types, and is never exhausted.
C6_BoundedByGraph ==
  (maxDepth = 0 /\ InWalk /\ stack # <<>>) =>
    /\ Len(stack) <= Cardinality(GraphOf(stack[1].typ))
    /\ status # "overflow"

\* C6 as amended: the same, for the targets under which every cycle of types
\* passes through a type that is in the Generating Set or has a matching
\* method.
C6_BoundedWhenGuarded ==
  (maxDepth = 0 /\ InWalk /\ stack # <<>> /\ CyclesGuarded(stack[1].typ)) =>
    /\ Len(stack) <= Cardinality(GraphOf(stack[1].typ))
    /\ status # "overflow"

\* Unbounded runs ended over cyclic graphs: U with N requested beside it, and
\* H, whose G refers to itself and has the method.
C6_Witness ==
  /\ maxDepth = 0 /\ pc = "done" /\ err = ""
  /\ request \in {<<"U", "N">>, <<"H">>}
  /\ Len(fns) = Len(request)

\* C7: every alias getElemType returned for a foreign unit is bound to that
\* unit's path, and no alias was returned for two paths.
C7_AliasesStable ==
  /\ \A n \in issued : n.alias \in DOMAIN imports /\ imports[n.alias] = n.path
  /\ \A n1, n2 \in issued : n1.alias = n2.alias => n1.path = n2.path

\* C8: at every slice the walk reaches below the root, the element walk (and
\* with it the loop) is left out exactly when the Skip Set holds the slice's
\* root-relative index path, the sink's variable name stripped.
C8_SliceSkipRootRelative ==
  InWalk =>
    \A d \in sliceDec :
      d.depth > 0 => (d.walked = (AfterFirstDot(d.sink \o <<"[", "i", "]">>) \notin skips))

\* C9: no unexported field of a struct declared in a unit other than the
\* context unit is passed to a walkType call.
C9_NoForeignUnexported ==
  \A v \in fieldVisits : (v.unit # "" /\ v.unit # "main") => v.exported

\* The declarations of the files not marked as generated, in scan order.
RECURSIVE HandWritten(_)
HandWritten(fs) ==
  IF fs = <<>> THEN <<>>
  ELSE (IF isCodeGenerated(Head(fs)) THEN <<>> ELSE Head(fs).decls) \o HandWritten(Tail(fs))

NamedReceiver(d) == d.kind = "func" /\ d.recv /\ d.ident /\ d.names # <<>>

\* Each type's first named receiver.
FirstReceivers(ds) ==
  [t \in {ds[i].typ : i \in {j \in 1..Len(ds) : NamedReceiver(ds[j])}} |->
     LET k == CHOOSE i \in 1..Len(ds) :
                /\ NamedReceiver(ds[i]) /\ ds[i].typ = t
                /\ \A j \in 1..(i - 1) : ~(NamedReceiver(ds[j]) /\ ds[j].typ = t)
     IN ds[k].names[1]]

\* C10: on a unit with at least one file the scan neither fails nor dies, and
\* what it returns maps each type to its first named receiver among the
\* hand-written files' methods.
C10_FirstNamedReceiver ==
  files # <<>> =>
    /\ status # "panic"
    /\ err # "recv"
    /\ pc = "gen" => receiverNames = FirstReceivers(HandWritten(files))

====
